---- MODULE Spec2Model ----
(***************************************************************************)
(* Checkout price recalculation of saleor/checkout/calculations.py.        *)
(*                                                                         *)
(* Money amounts are integers counted in 1/MinorUnit of the currency's     *)
(* minor unit, so that an amount can be finer than the currency precision  *)
(* and quantize_price has something to round.  A TaxedMoney is a record    *)
(* [net, gross].  A stored tax rate (a Decimal fraction such as 0.23) is   *)
(* an integer counted in 1/10000; a tax rate of TaxData is counted in      *)
(* percent, as the tax app sends it.                                       *)
(***************************************************************************)
EXTENDS Integers, Sequences, FiniteSets, TLC

\* ---------------------------------------------------------------- bounds
NumLines == 2      \* lines of the checkout
MaxTime  == 1      \* the clock runs 0..MaxTime

\* ------------------------------------------------------------- constants
CHECKOUT_PRICES_TTL == 1   \* settings.CHECKOUT_PRICES_TTL, in clock ticks
MinorUnit == 2             \* amounts per minor unit of the currency

Requests == {1, 2}
LineIds  == 1..NumLines

TM(n, g) == [net |-> n, gross |-> g]
zero_taxed_money == TM(0, 0)

TAX_APP    == "TAX_APP"
FLAT_RATES == "FLAT_RATES"
\* What get_tax_calculation_strategy_for_checkout can resolve to: the two
\* members of TaxCalculationStrategy, or a value that is neither.
Strategies == {TAX_APP, FLAT_RATES, "UNSET"}

\* ------------------------------------------- the collaborators' answers
\* TaxedMoney a plugin (manager) call can return for a line or shipping.
PluginMoney    == {TM(4, 5), TM(6, 9)}
PluginShipping == {TM(2, 3)}
PluginRates    == {2500}
PluginSubtotal == {TM(10, 13)}
PluginTotal    == {TM(16, 21)}
\* Entries of TaxData: amounts (Decimal) and a rate in percent.
TaxLines    == {[total_net_amount |-> 3, total_gross_amount |-> 4, tax_rate |-> 20],
                [total_net_amount |-> 8, total_gross_amount |-> 9, tax_rate |-> 10]}
TaxShipping == {[net |-> 1, gross |-> 2, rate |-> 20]}
\* Money of the base price provider (no tax), which quantizes what it returns.
BaseMoney    == {4, 6}
BaseShipping == {2}
\* Prices and rates (percent) of the flat-rate tables.
FlatMoney    == {TM(4, 5), TM(2, 2)}
FlatShipping == {TM(2, 3)}
FlatRates    == {25}
\* checkout.discount_amount
Discounts == {0, 2}

\* --------------------------------------------------------- pure helpers
RECURSIVE SumTM(_, _)
SumTM(s, start) ==
    IF s = <<>> THEN start
    ELSE SumTM(Tail(s), TM(start.net + Head(s).net, start.gross + Head(s).gross))

RECURSIVE SumInt(_)
SumInt(s) == IF s = <<>> THEN 0 ELSE Head(s) + SumInt(Tail(s))

Min(a, b) == IF a < b THEN a ELSE b
Max(a, b) == IF a < b THEN b ELSE a

\* Decimal.quantize to the currency precision, ROUND_HALF_EVEN.
quantize_amount(x) ==
    LET r == x % MinorUnit
        lo == x - r
        hi == lo + MinorUnit
    IN  IF r = 0 THEN x
        ELSE IF 2 * r < MinorUnit THEN lo
        ELSE IF 2 * r > MinorUnit THEN hi
        ELSE IF (lo \div MinorUnit) % 2 = 0 THEN lo ELSE hi

quantize_price(p) == TM(quantize_amount(p.net), quantize_amount(p.gross))

\* x / q, then Decimal.quantize to the currency precision, ROUND_HALF_EVEN.
quantize_quotient(x, q) ==
    LET d == q * MinorUnit
        r == x % d
        lo == (x - r) \div d
    IN  IF 2 * r < d THEN lo * MinorUnit
        ELSE IF 2 * r > d THEN (lo + 1) * MinorUnit
        ELSE IF lo % 2 = 0 THEN lo * MinorUnit ELSE (lo + 1) * MinorUnit

\* tax_rate / 100: a rate in percent becomes a fraction (here in 1/10000).
normalize_tax_rate_for_db(rate) == rate * 100

\* tax / net when both net and gross are non-zero, else 0 (in 1/10000).
calculate_tax_rate(p) ==
    IF p.net # 0 /\ p.gross # 0 THEN ((p.gross - p.net) * 10000) \div p.net ELSE 0

\* --------------------------------------------------------------- state
VARIABLES
    now,                \* timezone.now(), in clock ticks
    tax_configuration,  \* the channel's tax configuration, as resolved for the checkout
    db,                 \* the persisted checkout row and its line rows
    pc,                 \* pc[r]: where request r stands in its call
    info,               \* info[r]: checkout_info.checkout and lines of request r (in memory)
    force_update,       \* force_update[r]: the argument of the call in progress
    entry,              \* entry[r]: the checkout and lines as given to the call
    entered_at,         \* entered_at[r]: the clock when the call was made
    log,                \* log[r]: what the call has invoked so far, in order
    idx,                \* idx[r]: the line the plugin loop is at
    tax_data,           \* tax_data[r]: what get_taxes_for_checkout returned
    plugin_values,      \* plugin_values[r]: checkout and lines as the plugin calls left them
    base_prices,        \* base_prices[r]: what the base price provider returned
    result,             \* result[r]: what the read operation around the call returned
    app                 \* the call of AppUpdate.clean_input: its arguments, position, outcome

checkout_vars == <<now, tax_configuration, db, pc, info, force_update, entry, entered_at,
                   log, idx, tax_data, plugin_values, base_prices, result>>

vars == <<checkout_vars, app>>

NoTaxData == [present |-> FALSE, lines |-> <<>>,
              shipping_price_net_amount |-> 0, shipping_price_gross_amount |-> 0,
              shipping_tax_rate |-> 0]
NoBasePrices == [present |-> FALSE, lines |-> <<>>, units |-> <<>>, shipping |-> 0, total |-> 0]
\* No read operation has returned.
NoResult == [op |-> "", line |-> 0, balance |-> 0, money |-> zero_taxed_money, rate |-> 0]

\* ------------------------------------------------------------ AppUpdate.clean_input
\* Permission names an input may carry, and the inputs of the mutation: the
\* keys "name" and "permissions" are each present or absent in data.
PermissionEnum == {"MANAGE_APPS", "MANAGE_ORDERS"}
NoPermissions == [present |-> FALSE, value |-> {}, resolved |-> FALSE]
PermissionInputs ==
    {NoPermissions} \cup
    {[present |-> TRUE, value |-> ps, resolved |-> FALSE] : ps \in SUBSET PermissionEnum}
AppInputs == [has_name : BOOLEAN, permissions : PermissionInputs]
NoAppInput == [has_name |-> FALSE, permissions |-> NoPermissions]

\* get_user_or_app_from_context: a user (superuser or not) or an app.
Requestors ==
    {[kind |-> "user", is_superuser |-> TRUE],
     [kind |-> "user", is_superuser |-> FALSE],
     [kind |-> "app", is_superuser |-> FALSE]}

NoCleanedInput == [present |-> FALSE, input |-> NoAppInput]
NoValidationError == [present |-> FALSE, field |-> "", code |-> ""]
OUT_OF_SCOPE_APP == [present |-> TRUE, field |-> "id", code |-> "OUT_OF_SCOPE_APP"]
OUT_OF_SCOPE_PERMISSION ==
    [present |-> TRUE, field |-> "permissions", code |-> "OUT_OF_SCOPE_PERMISSION"]

\* No call of AppUpdate.clean_input is under way.
NoAppUpdate ==
    [pc            |-> "idle",
     requestor     |-> [kind |-> "app", is_superuser |-> FALSE],
     can_manage    |-> [asked |-> FALSE, answer |-> FALSE],
     data          |-> NoAppInput,
     cleaned_input |-> NoCleanedInput,
     returned      |-> NoCleanedInput,
     error         |-> NoValidationError,
     log           |-> <<>>]

\* A checkout as it is created: no price computed yet, price_expiration = now.
NewCheckout(exempt, discount) ==
    [checkout |-> [shipping_price |-> zero_taxed_money, shipping_tax_rate |-> 0,
                   subtotal |-> zero_taxed_money, total |-> zero_taxed_money,
                   price_expiration |-> 0, discount_amount |-> discount,
                   tax_exemption |-> exempt],
     lines |-> [i \in LineIds |-> [total_price |-> zero_taxed_money, tax_rate |-> 0,
                                   quantity |-> 2]]]

\* ------------------------------------------ the functions of the source
\* Mutants of the early return: the comparison turned round; force_update ignored.
prices_are_fresh_turned(force, price_expiration, t) == ~force /\ price_expiration < t
prices_are_fresh_unforced(force, price_expiration, t) == price_expiration > t

\* Mutant: only force_update makes the prices stale.
prices_are_fresh_always(force, price_expiration, t) == ~force

\* fetch_checkout_prices_if_expired: the condition of the early return.
prices_are_fresh(force, price_expiration, t) == ~force /\ price_expiration > t

\* Mutant: the checkout's tax exemption is not looked at.
should_charge_tax_no_exemption(charge_taxes, tax_exemption) == charge_taxes

should_charge_tax(charge_taxes, tax_exemption) == charge_taxes /\ ~tax_exemption

\* fetch_checkout_prices_if_expired: which branch computes the prices.
first_step(prices_entered_with_tax, should_charge) ==
    IF prices_entered_with_tax THEN "calculate_and_add_tax"
    ELSE IF should_charge THEN "calculate_and_add_tax"
    ELSE "get_checkout_base_prices"

\* fetch_checkout_prices_if_expired: what follows _calculate_and_add_tax.
step_after_tax(prices_entered_with_tax, should_charge) ==
    IF prices_entered_with_tax /\ ~should_charge THEN "remove_tax" ELSE "set_expiration"

\* Mutant: the lines are left as the tax computation set them.
remove_tax_header_only(c) ==
    [checkout |-> [c.checkout EXCEPT
                     !.total = TM(c.checkout.total.net, c.checkout.total.net),
                     !.subtotal = TM(c.checkout.subtotal.net, c.checkout.subtotal.net),
                     !.shipping_price = TM(c.checkout.shipping_price.net,
                                           c.checkout.shipping_price.net),
                     !.shipping_tax_rate = 0],
     lines |-> c.lines]

remove_tax(c) ==
    [checkout |-> [c.checkout EXCEPT
                     !.total = TM(c.checkout.total.net, c.checkout.total.net),
                     !.subtotal = TM(c.checkout.subtotal.net, c.checkout.subtotal.net),
                     !.shipping_price = TM(c.checkout.shipping_price.net,
                                           c.checkout.shipping_price.net),
                     !.shipping_tax_rate = 0],
     lines |-> [i \in DOMAIN c.lines |->
                  [c.lines[i] EXCEPT
                     !.total_price = TM(c.lines[i].total_price.net,
                                        c.lines[i].total_price.net),
                     !.tax_rate = 0]]]

\* Mutant: the total the checkout already carries (the plugin's) is kept.
calculate_checkout_total_kept(checkout) == checkout.total

calculate_checkout_total(checkout) ==
    quantize_price(TM(checkout.subtotal.net + checkout.shipping_price.net,
                      checkout.subtotal.gross + checkout.shipping_price.gross))

calculate_checkout_subtotal(lines) ==
    quantize_price(SumTM([i \in DOMAIN lines |-> lines[i].total_price], zero_taxed_money))

\* Mutant: without TaxData the subtotal and total are still recomputed locally.
apply_tax_data_recomputing(c, td) ==
    LET ck1 == [c.checkout EXCEPT !.subtotal = calculate_checkout_subtotal(c.lines)]
    IN  IF ~td.present
        THEN [checkout |-> [ck1 EXCEPT !.total = calculate_checkout_total(ck1)],
              lines |-> c.lines]
        ELSE c

\* Mutant: a TaxData whose number of lines is not the checkout's is not applied.
apply_tax_data_same_count_only(c, td) ==
    IF ~td.present \/ Len(td.lines) # Len(c.lines) THEN c
    ELSE
      LET lines1 == [i \in DOMAIN c.lines |->
                       [c.lines[i] EXCEPT
                          !.total_price =
                             quantize_price(TM(td.lines[i].total_net_amount,
                                               td.lines[i].total_gross_amount)),
                          !.tax_rate = normalize_tax_rate_for_db(td.lines[i].tax_rate)]]
          ck1 == [c.checkout EXCEPT
                    !.shipping_tax_rate = normalize_tax_rate_for_db(td.shipping_tax_rate),
                    !.shipping_price =
                       quantize_price(TM(td.shipping_price_net_amount,
                                         td.shipping_price_gross_amount)),
                    !.subtotal = calculate_checkout_subtotal(lines1)]
      IN  [checkout |-> [ck1 EXCEPT !.total = calculate_checkout_total(ck1)],
           lines |-> lines1]

\* Mutant: the TaxData lines are paired with the checkout lines from the other end.
apply_tax_data_reversed(c, td) ==
    IF ~td.present THEN c
    ELSE
      LET zipped == Min(Len(c.lines), Len(td.lines))
          lines1 == [i \in DOMAIN c.lines |->
                       IF i <= zipped
                       THEN [c.lines[i] EXCEPT
                               !.total_price =
                                  quantize_price(TM(td.lines[zipped + 1 - i].total_net_amount,
                                                    td.lines[zipped + 1 - i].total_gross_amount)),
                               !.tax_rate =
                                  normalize_tax_rate_for_db(td.lines[zipped + 1 - i].tax_rate)]
                       ELSE c.lines[i]]
          ck1 == [c.checkout EXCEPT
                    !.shipping_tax_rate = normalize_tax_rate_for_db(td.shipping_tax_rate),
                    !.shipping_price =
                       quantize_price(TM(td.shipping_price_net_amount,
                                         td.shipping_price_gross_amount)),
                    !.subtotal = calculate_checkout_subtotal(lines1)]
      IN  [checkout |-> [ck1 EXCEPT !.total = calculate_checkout_total(ck1)],
           lines |-> lines1]

apply_tax_data(c, td) ==
    IF ~td.present THEN c
    ELSE
      LET zipped == Min(Len(c.lines), Len(td.lines))
          lines1 == [i \in DOMAIN c.lines |->
                       IF i <= zipped
                       THEN [c.lines[i] EXCEPT
                               !.total_price =
                                  quantize_price(TM(td.lines[i].total_net_amount,
                                                    td.lines[i].total_gross_amount)),
                               !.tax_rate = normalize_tax_rate_for_db(td.lines[i].tax_rate)]
                       ELSE c.lines[i]]
          ck1 == [c.checkout EXCEPT
                    !.shipping_tax_rate = normalize_tax_rate_for_db(td.shipping_tax_rate),
                    !.shipping_price =
                       quantize_price(TM(td.shipping_price_net_amount,
                                         td.shipping_price_gross_amount)),
                    !.subtotal = calculate_checkout_subtotal(lines1)]
      IN  [checkout |-> [ck1 EXCEPT !.total = calculate_checkout_total(ck1)],
           lines |-> lines1]

\* base_calculations.base_checkout_total: the discounted total, never negative.
base_checkout_total(line_totals, shipping, discount) ==
    Max(SumInt(line_totals) + shipping - discount, 0)

\* Mutant: the total is summed locally, as in _apply_tax_data, and the provider's
\* total (with the discount taken off) is not used.
get_checkout_base_prices_summing(c, bp) ==
    LET lines1 == [i \in DOMAIN c.lines |->
                     [c.lines[i] EXCEPT
                        !.total_price = quantize_price(TM(bp.lines[i], bp.lines[i])),
                        !.tax_rate = calculate_tax_rate(
                                        quantize_price(TM(bp.units[i], bp.units[i])))]]
        shipping == quantize_price(TM(bp.shipping, bp.shipping))
    IN  [checkout |-> [c.checkout EXCEPT
                         !.shipping_price = shipping,
                         !.shipping_tax_rate = calculate_tax_rate(shipping),
                         !.subtotal = SumTM([i \in DOMAIN lines1 |-> lines1[i].total_price],
                                            zero_taxed_money),
                         !.total =
                            quantize_price(
                               SumTM([i \in DOMAIN lines1 |-> lines1[i].total_price],
                                     shipping))],
         lines |-> lines1]

\* bp: the base price provider's answers [lines, units, shipping, total].
get_checkout_base_prices(c, bp) ==
    LET lines1 == [i \in DOMAIN c.lines |->
                     [c.lines[i] EXCEPT
                        !.total_price = quantize_price(TM(bp.lines[i], bp.lines[i])),
                        !.tax_rate = calculate_tax_rate(
                                        quantize_price(TM(bp.units[i], bp.units[i])))]]
        shipping == quantize_price(TM(bp.shipping, bp.shipping))
    IN  [checkout |-> [c.checkout EXCEPT
                         !.shipping_price = shipping,
                         !.shipping_tax_rate = calculate_tax_rate(shipping),
                         !.subtotal = SumTM([i \in DOMAIN lines1 |-> lines1[i].total_price],
                                            zero_taxed_money),
                         !.total = quantize_price(TM(bp.total, bp.total))],
         lines |-> lines1]

\* tax.calculations.checkout.update_checkout_prices_with_flat_rates, with the prices
\* and rates (in percent) the rate tables give.
update_checkout_prices_with_flat_rates(c, line_prices, line_rates, shipping, shipping_rate) ==
    LET lines1 == [i \in DOMAIN c.lines |->
                     [c.lines[i] EXCEPT
                        !.total_price = line_prices[i],
                        !.tax_rate = normalize_tax_rate_for_db(line_rates[i])]]
        subtotal == SumTM([i \in DOMAIN lines1 |-> lines1[i].total_price], zero_taxed_money)
    IN  [checkout |-> [c.checkout EXCEPT
                         !.shipping_price = shipping,
                         !.shipping_tax_rate = normalize_tax_rate_for_db(shipping_rate),
                         !.subtotal = subtotal,
                         !.total = TM(subtotal.net + shipping.net,
                                      subtotal.gross + shipping.gross)],
         lines |-> lines1]

\* Mutant: price_expiration is missing from update_fields.
checkout_save_no_expiration(row, checkout) ==
    [row EXCEPT !.total = checkout.total,
                !.subtotal = checkout.subtotal,
                !.shipping_price = checkout.shipping_price,
                !.shipping_tax_rate = checkout.shipping_tax_rate,
                !.discount_amount = checkout.discount_amount]

\* checkout.save(update_fields=[...]): the listed columns, from memory to the row.
checkout_save(row, checkout) ==
    [row EXCEPT !.total = checkout.total,
                !.subtotal = checkout.subtotal,
                !.shipping_price = checkout.shipping_price,
                !.shipping_tax_rate = checkout.shipping_tax_rate,
                !.price_expiration = checkout.price_expiration,
                !.discount_amount = checkout.discount_amount]

\* Mutant: only the first line is updated.
lines_bulk_update_first_only(rows, lines) ==
    [i \in DOMAIN rows |->
       IF i = 1 /\ i \in DOMAIN lines
       THEN [rows[i] EXCEPT !.total_price = lines[i].total_price,
                            !.tax_rate = lines[i].tax_rate]
       ELSE rows[i]]

\* Mutant: the whole row of every line is written, not the listed columns.
lines_bulk_update_whole_rows(rows, lines) ==
    [i \in DOMAIN rows |-> IF i \in DOMAIN lines THEN lines[i] ELSE rows[i]]

\* checkout.lines.bulk_update(lines, [...]): the listed columns of every line.
lines_bulk_update(rows, lines) ==
    [i \in DOMAIN rows |->
       IF i \in DOMAIN lines
       THEN [rows[i] EXCEPT !.total_price = lines[i].total_price,
                            !.tax_rate = lines[i].tax_rate]
       ELSE rows[i]]

\* The read operations, after their call of fetch_checkout_prices_if_expired:
\* c is the checkout and lines that call handed back.
checkout_shipping_price(c) == quantize_price(c.checkout.shipping_price)

checkout_shipping_tax_rate(c) == c.checkout.shipping_tax_rate

checkout_subtotal(c) == quantize_price(c.checkout.subtotal)

checkout_total(c) == quantize_price(c.checkout.total)

checkout_line_total(c, i) == quantize_price(c.lines[i].total_price)

checkout_line_unit_price(c, i) ==
    TM(quantize_quotient(c.lines[i].total_price.net, c.lines[i].quantity),
       quantize_quotient(c.lines[i].total_price.gross, c.lines[i].quantity))

checkout_line_tax_rate(c, i) == c.lines[i].tax_rate

\* TaxedMoney.__lt__: two TaxedMoney are ordered by their gross amounts.
taxed_money_lt(a, b) == a.gross < b.gross

\* max(a, b) of Python: b only when it is greater than a.
taxed_money_max(a, b) == IF taxed_money_lt(a, b) THEN b ELSE a

\* balance: checkout.get_total_gift_cards_balance(), a Money.
calculate_checkout_total_with_gift_cards(c, balance) ==
    LET total == TM(checkout_total(c).net - balance, checkout_total(c).gross - balance)
    IN  taxed_money_max(total, zero_taxed_money)

\* _apply_tax_data_from_plugins as a whole: a holds what the manager answers.
apply_tax_data_from_plugins(c, a) ==
    [checkout |-> [c.checkout EXCEPT !.shipping_price = a.shipping,
                                     !.shipping_tax_rate = a.shipping_rate,
                                     !.subtotal = a.subtotal,
                                     !.total = a.total],
     lines |-> [i \in DOMAIN c.lines |->
                  [c.lines[i] EXCEPT !.total_price = a.line_total[i],
                                     !.tax_rate = a.line_rate[i]]]]

\* _calculate_and_add_tax as a whole, when no call of the provider raises.
calculate_and_add_tax_of(c, strategy, a) ==
    IF strategy = TAX_APP
    THEN apply_tax_data(apply_tax_data_from_plugins(c, a), a.tax_data)
    ELSE IF strategy = FLAT_RATES
    THEN update_checkout_prices_with_flat_rates(c, a.flat_prices, a.flat_rates,
                                                a.flat_shipping, a.flat_shipping_rate)
    ELSE c

\* fetch_checkout_prices_if_expired from the tax configuration to the new
\* price_expiration, at time t, when no call of the provider raises.
recompute(c, cfg, a, t) ==
    LET should == should_charge_tax(cfg.charge_taxes, c.checkout.tax_exemption)
        first == first_step(cfg.prices_entered_with_tax, should)
        bp == [present |-> TRUE, lines |-> a.base_lines, units |-> a.base_units,
               shipping |-> a.base_shipping,
               total |-> base_checkout_total(a.base_lines, a.base_shipping,
                                             c.checkout.discount_amount)]
        priced == IF first = "calculate_and_add_tax"
                  THEN calculate_and_add_tax_of(c, cfg.tax_calculation_strategy, a)
                  ELSE get_checkout_base_prices(c, bp)
        done == IF first = "calculate_and_add_tax"
                   /\ step_after_tax(cfg.prices_entered_with_tax, should) = "remove_tax"
                THEN remove_tax(priced)
                ELSE priced
    IN  [done EXCEPT !.checkout.price_expiration = t + CHECKOUT_PRICES_TTL]

\* --------------------------------------------------------------- Init
Init ==
    /\ now = 0
    /\ tax_configuration \in [prices_entered_with_tax : BOOLEAN,
                              charge_taxes : BOOLEAN,
                              tax_calculation_strategy : Strategies]
    /\ \E exempt \in BOOLEAN, discount \in Discounts : db = NewCheckout(exempt, discount)
    /\ pc = [r \in Requests |-> "idle"]
    /\ info = [r \in Requests |-> db]
    /\ force_update = [r \in Requests |-> FALSE]
    /\ entry = [r \in Requests |-> db]
    /\ entered_at = [r \in Requests |-> 0]
    /\ log = [r \in Requests |-> <<>>]
    /\ idx = [r \in Requests |-> 0]
    /\ tax_data = [r \in Requests |-> NoTaxData]
    /\ plugin_values = [r \in Requests |-> db]
    /\ base_prices = [r \in Requests |-> NoBasePrices]
    /\ result = [r \in Requests |-> NoResult]
    /\ app = NoAppUpdate

\* ------------------------------------------------------------ actions
\* The steps at which a call of the tax provider (the plugins manager) is pending.
ManagerCalls == {"calculate_checkout_line_total", "calculate_checkout_line_unit_price",
                 "get_checkout_line_tax_rate", "calculate_checkout_shipping",
                 "get_checkout_shipping_tax_rate", "calculate_checkout_subtotal",
                 "calculate_checkout_total", "get_taxes_for_checkout"}

ShouldChargeTax(r) ==
    should_charge_tax(tax_configuration.charge_taxes, info[r].checkout.tax_exemption)

\* A caller builds checkout_info and lines from the stored checkout and calls
\* fetch_checkout_prices_if_expired.
Enter(r, force) ==
    /\ pc[r] \in {"idle", "returned", "raised"}
    /\ info' = [info EXCEPT ![r] = db]
    /\ entry' = [entry EXCEPT ![r] = db]
    /\ entered_at' = [entered_at EXCEPT ![r] = now]
    /\ force_update' = [force_update EXCEPT ![r] = force]
    /\ idx' = [idx EXCEPT ![r] = 0]
    /\ tax_data' = [tax_data EXCEPT ![r] = NoTaxData]
    /\ plugin_values' = [plugin_values EXCEPT ![r] = db]
    /\ base_prices' = [base_prices EXCEPT ![r] = NoBasePrices]
    /\ result' = [result EXCEPT ![r] = NoResult]
    /\ UNCHANGED <<now, tax_configuration, db, app>>

\* The early return: the prices are fresh and no update is forced.
fetch_return_fresh(r) ==
    \E force \in BOOLEAN :
        /\ Enter(r, force)
        /\ prices_are_fresh(force, db.checkout.price_expiration, now)
        /\ pc' = [pc EXCEPT ![r] = "returned"]
        /\ log' = [log EXCEPT ![r] = <<>>]

\* Otherwise the tax configuration is resolved and a branch chosen.
fetch_recompute(r) ==
    \E force \in BOOLEAN :
        /\ Enter(r, force)
        /\ ~prices_are_fresh(force, db.checkout.price_expiration, now)
        /\ pc' = [pc EXCEPT ![r] =
                    first_step(tax_configuration.prices_entered_with_tax,
                               should_charge_tax(tax_configuration.charge_taxes,
                                                 db.checkout.tax_exemption))]
        /\ log' = [log EXCEPT ![r] = <<"select_strategy">>]

Step(r, next, event) ==
    /\ pc' = [pc EXCEPT ![r] = next]
    /\ log' = [log EXCEPT ![r] = Append(@, event)]
    /\ UNCHANGED <<now, tax_configuration, force_update, entry, entered_at, result, app>>

\* The locals of the tax computation are gone once it has returned.
Forget(r) ==
    /\ idx' = [idx EXCEPT ![r] = 0]
    /\ tax_data' = [tax_data EXCEPT ![r] = NoTaxData]
    /\ plugin_values' = [plugin_values EXCEPT ![r] = entry[r]]
    /\ base_prices' = [base_prices EXCEPT ![r] = NoBasePrices]

AfterTax(r) ==
    step_after_tax(tax_configuration.prices_entered_with_tax, ShouldChargeTax(r))

\* Mutant: the tax plugins are called for FLAT_RATES as well.
calculate_and_add_tax_plugins_always(r) ==
    /\ pc[r] = "calculate_and_add_tax"
    /\ \/ /\ tax_configuration.tax_calculation_strategy \in {TAX_APP, FLAT_RATES}
          /\ Step(r, "calculate_checkout_line_total", "calculate_and_add_tax")
          /\ idx' = [idx EXCEPT ![r] = 1]
          /\ UNCHANGED <<db, info, tax_data, plugin_values, base_prices>>
       \/ /\ tax_configuration.tax_calculation_strategy \notin {TAX_APP, FLAT_RATES}
          /\ Step(r, AfterTax(r), "calculate_and_add_tax")
          /\ UNCHANGED <<db, info, idx, tax_data, plugin_values, base_prices>>

\* _calculate_and_add_tax: the strategy decides who computes the tax.
calculate_and_add_tax(r) ==
    /\ pc[r] = "calculate_and_add_tax"
    /\ \/ /\ tax_configuration.tax_calculation_strategy = TAX_APP
          /\ Step(r, "calculate_checkout_line_total", "calculate_and_add_tax")
          /\ idx' = [idx EXCEPT ![r] = 1]
          /\ UNCHANGED <<db, info, tax_data, plugin_values, base_prices>>
       \/ /\ tax_configuration.tax_calculation_strategy = FLAT_RATES
          /\ Step(r, "flat_rates", "calculate_and_add_tax")
          /\ UNCHANGED <<db, info, idx, tax_data, plugin_values, base_prices>>
       \/ /\ tax_configuration.tax_calculation_strategy \notin {TAX_APP, FLAT_RATES}
          /\ Step(r, AfterTax(r), "calculate_and_add_tax")
          /\ UNCHANGED <<db, info, idx, tax_data, plugin_values, base_prices>>

\* The log entry for the prices_entered_with_tax argument of the call that follows.
FlagPassed(prices_entered_with_tax) ==
    IF prices_entered_with_tax THEN "prices_entered_with_tax=True"
    ELSE "prices_entered_with_tax=False"

flat_rates(r) ==
    /\ pc[r] = "flat_rates"
    /\ \E prices \in [LineIds -> FlatMoney], rates \in [LineIds -> FlatRates],
          shipping \in FlatShipping, shipping_rate \in FlatRates :
          info' = [info EXCEPT ![r] =
                     update_checkout_prices_with_flat_rates(@, prices, rates,
                                                            shipping, shipping_rate)]
    /\ pc' = [pc EXCEPT ![r] = AfterTax(r)]
    /\ log' = [log EXCEPT ![r] =
                 @ \o <<FlagPassed(tax_configuration.prices_entered_with_tax),
                        "update_checkout_prices_with_flat_rates">>]
    /\ UNCHANGED <<now, tax_configuration, db, force_update, entry, entered_at,
                   idx, tax_data, plugin_values, base_prices, result, app>>

\* _apply_tax_data_from_plugins, one manager call at a time.
plugins_line_total(r) ==
    /\ pc[r] = "calculate_checkout_line_total"
    /\ \E total_price \in PluginMoney :
          info' = [info EXCEPT ![r].lines[idx[r]].total_price = total_price]
    /\ Step(r, "calculate_checkout_line_unit_price", pc[r])
    /\ UNCHANGED <<db, idx, tax_data, plugin_values, base_prices>>

plugins_line_unit_price(r) ==
    /\ pc[r] = "calculate_checkout_line_unit_price"
    /\ Step(r, "get_checkout_line_tax_rate", pc[r])
    /\ UNCHANGED <<db, info, idx, tax_data, plugin_values, base_prices>>

plugins_line_tax_rate(r) ==
    /\ pc[r] = "get_checkout_line_tax_rate"
    /\ \E rate \in PluginRates :
          info' = [info EXCEPT ![r].lines[idx[r]].tax_rate = rate]
    /\ IF idx[r] < Len(info[r].lines)
       THEN /\ Step(r, "calculate_checkout_line_total", pc[r])
            /\ idx' = [idx EXCEPT ![r] = @ + 1]
       ELSE /\ Step(r, "calculate_checkout_shipping", pc[r])
            /\ UNCHANGED idx
    /\ UNCHANGED <<db, tax_data, plugin_values, base_prices>>

plugins_shipping(r) ==
    /\ pc[r] = "calculate_checkout_shipping"
    /\ \E price \in PluginShipping :
          info' = [info EXCEPT ![r].checkout.shipping_price = price]
    /\ Step(r, "get_checkout_shipping_tax_rate", pc[r])
    /\ UNCHANGED <<db, idx, tax_data, plugin_values, base_prices>>

plugins_shipping_tax_rate(r) ==
    /\ pc[r] = "get_checkout_shipping_tax_rate"
    /\ \E rate \in PluginRates :
          info' = [info EXCEPT ![r].checkout.shipping_tax_rate = rate]
    /\ Step(r, "calculate_checkout_subtotal", pc[r])
    /\ UNCHANGED <<db, idx, tax_data, plugin_values, base_prices>>

plugins_subtotal(r) ==
    /\ pc[r] = "calculate_checkout_subtotal"
    /\ \E subtotal \in PluginSubtotal :
          info' = [info EXCEPT ![r].checkout.subtotal = subtotal]
    /\ Step(r, "calculate_checkout_total", pc[r])
    /\ UNCHANGED <<db, idx, tax_data, plugin_values, base_prices>>

plugins_total(r) ==
    /\ pc[r] = "calculate_checkout_total"
    /\ \E total \in PluginTotal :
          info' = [info EXCEPT ![r].checkout.total = total]
    /\ Step(r, "get_taxes_for_checkout", pc[r])
    /\ UNCHANGED <<db, idx, tax_data, plugin_values, base_prices>>

\* What get_taxes_for_checkout can return: nothing, or a TaxData.
TaxDataAnswers ==
    {NoTaxData} \cup
    { [present |-> TRUE, lines |-> ls,
       shipping_price_net_amount |-> s.net, shipping_price_gross_amount |-> s.gross,
       shipping_tax_rate |-> s.rate] :
      ls \in UNION {[1..n -> TaxLines] : n \in (NumLines - 1)..(NumLines + 1)},
      s \in TaxShipping }

\* manager.get_taxes_for_checkout and _apply_tax_data.
get_taxes_and_apply(r) ==
    /\ pc[r] = "get_taxes_for_checkout"
    /\ \E td \in TaxDataAnswers :
          /\ tax_data' = [tax_data EXCEPT ![r] = td]
          /\ info' = [info EXCEPT ![r] = apply_tax_data(@, td)]
    /\ plugin_values' = [plugin_values EXCEPT ![r] = info[r]]
    /\ Step(r, AfterTax(r), pc[r])
    /\ UNCHANGED <<db, idx, base_prices>>

\* Mutant: the checkout is saved on the way out (a finally clause).
provider_raises_saving(r) ==
    /\ pc[r] \in ManagerCalls
    /\ pc' = [pc EXCEPT ![r] = "raised"]
    /\ log' = [log EXCEPT ![r] = @ \o <<pc[r], "raise">>]
    /\ db' = [db EXCEPT !.checkout = checkout_save(@, info[r].checkout)]
    /\ UNCHANGED <<now, tax_configuration, info, force_update, entry, entered_at,
                   idx, tax_data, plugin_values, base_prices, result, app>>

\* A call of the tax provider raises: the exception leaves the function.
provider_raises(r) ==
    /\ pc[r] \in ManagerCalls
    /\ pc' = [pc EXCEPT ![r] = "raised"]
    /\ log' = [log EXCEPT ![r] = @ \o <<pc[r], "raise">>]
    /\ UNCHANGED <<now, tax_configuration, db, info, force_update, entry, entered_at,
                   idx, tax_data, plugin_values, base_prices, result, app>>

fetch_remove_tax(r) ==
    /\ pc[r] = "remove_tax"
    /\ info' = [info EXCEPT ![r] = remove_tax(@)]
    /\ Step(r, "set_expiration", "remove_tax")
    /\ Forget(r)
    /\ UNCHANGED db

\* What the base price provider can return for the checkout.
BasePriceAnswers(discount) ==
    { [present |-> TRUE, lines |-> ls, units |-> us, shipping |-> s,
       total |-> base_checkout_total(ls, s, discount)] :
      ls \in [LineIds -> BaseMoney], us \in [LineIds -> {2}], s \in BaseShipping }

fetch_base_prices(r) ==
    /\ pc[r] = "get_checkout_base_prices"
    /\ \E bp \in BasePriceAnswers(info[r].checkout.discount_amount) :
          /\ base_prices' = [base_prices EXCEPT ![r] = bp]
          /\ info' = [info EXCEPT ![r] = get_checkout_base_prices(@, bp)]
    /\ Step(r, "set_expiration", "get_checkout_base_prices")
    /\ UNCHANGED <<db, idx, tax_data, plugin_values>>

\* Mutant: price_expiration is set to now, without the TTL.
fetch_set_expiration_now(r) ==
    /\ pc[r] = "set_expiration"
    /\ info' = [info EXCEPT ![r].checkout.price_expiration = now]
    /\ Step(r, "save", "set_expiration")
    /\ Forget(r)
    /\ UNCHANGED db

fetch_set_expiration(r) ==
    /\ pc[r] = "set_expiration"
    /\ info' = [info EXCEPT ![r].checkout.price_expiration = now + CHECKOUT_PRICES_TTL]
    /\ Step(r, "save", "set_expiration")
    /\ Forget(r)
    /\ UNCHANGED db

fetch_save(r) ==
    /\ pc[r] = "save"
    /\ db' = [db EXCEPT !.checkout = checkout_save(@, info[r].checkout)]
    /\ Step(r, "bulk_update", "save")
    /\ UNCHANGED <<info, idx, tax_data, plugin_values, base_prices>>

fetch_bulk_update(r) ==
    /\ pc[r] = "bulk_update"
    /\ db' = [db EXCEPT !.lines = lines_bulk_update(@, info[r].lines)]
    /\ Step(r, "returned", "bulk_update")
    /\ UNCHANGED <<info, idx, tax_data, plugin_values, base_prices>>

\* What a caller can ask for: the operation, the line and the gift card balance.
CheckoutOps == {"checkout_shipping_price", "checkout_shipping_tax_rate",
                "checkout_subtotal", "checkout_total"}
LineOps == {"checkout_line_total", "checkout_line_unit_price", "checkout_line_tax_rate"}
GiftCardBalances == {0, 18, 40}
ReadCalls ==
    {<<op, 0, 0>> : op \in CheckoutOps}
    \cup {<<op, i, 0>> : op \in LineOps, i \in LineIds}
    \cup {<<"calculate_checkout_total_with_gift_cards", 0, b>> : b \in GiftCardBalances}

ReadAnswer(c, op, i, balance) ==
    [op |-> op, line |-> i, balance |-> balance,
     money |->
        IF op = "checkout_shipping_price" THEN checkout_shipping_price(c)
        ELSE IF op = "checkout_subtotal" THEN checkout_subtotal(c)
        ELSE IF op = "checkout_total" THEN checkout_total(c)
        ELSE IF op = "checkout_line_total" THEN checkout_line_total(c, i)
        ELSE IF op = "checkout_line_unit_price" THEN checkout_line_unit_price(c, i)
        ELSE IF op = "calculate_checkout_total_with_gift_cards"
             THEN calculate_checkout_total_with_gift_cards(c, balance)
        ELSE zero_taxed_money,
     rate |->
        IF op = "checkout_shipping_tax_rate" THEN checkout_shipping_tax_rate(c)
        ELSE IF op = "checkout_line_tax_rate" THEN checkout_line_tax_rate(c, i)
        ELSE 0]

\* The call was made by a read operation (these never force an update): once
\* fetch_checkout_prices_if_expired has returned, the operation reads its field
\* from the checkout and lines handed back.
read_field(r) ==
    /\ pc[r] = "returned" /\ ~force_update[r] /\ result[r] = NoResult
    /\ \E call \in ReadCalls :
          result' = [result EXCEPT ![r] = ReadAnswer(info[r], call[1], call[2], call[3])]
    /\ UNCHANGED <<now, tax_configuration, db, pc, info, force_update, entry, entered_at,
                   log, idx, tax_data, plugin_values, base_prices, app>>

\* Time passes. The clock is coarse: a call reads the same tick at both of its
\* timezone.now().
Tick ==
    /\ now < MaxTime
    /\ \A r \in Requests : pc[r] \in {"idle", "returned", "raised"}
    /\ now' = now + 1
    /\ UNCHANGED <<tax_configuration, db, pc, info, force_update, entry, entered_at,
                   log, idx, tax_data, plugin_values, base_prices, result, app>>

Call(r) ==
    \/ fetch_return_fresh(r)
    \/ fetch_recompute(r)
    \/ calculate_and_add_tax(r)
    \/ flat_rates(r)
    \/ plugins_line_total(r)
    \/ plugins_line_unit_price(r)
    \/ plugins_line_tax_rate(r)
    \/ plugins_shipping(r)
    \/ plugins_shipping_tax_rate(r)
    \/ plugins_subtotal(r)
    \/ plugins_total(r)
    \/ get_taxes_and_apply(r)
    \/ provider_raises(r)
    \/ fetch_remove_tax(r)
    \/ fetch_base_prices(r)
    \/ fetch_set_expiration(r)
    \/ fetch_save(r)
    \/ fetch_bulk_update(r)
    \/ read_field(r)

\* One request at a time.
Next == Tick \/ Call(1)

Spec == Init /\ [][Next]_vars

\* ------------------------------------- two requests for the same checkout
\* The function takes no lock and opens no transaction: what the requests share
\* is the stored checkout, read when the caller builds checkout_info and written
\* by checkout.save and by bulk_update. Everything between is local to a request
\* and is taken here as one step.
UniformTaxData ==
    {NoTaxData} \cup
    { [present |-> TRUE, lines |-> [i \in LineIds |-> tl],
       shipping_price_net_amount |-> s.net, shipping_price_gross_amount |-> s.gross,
       shipping_tax_rate |-> s.rate] : tl \in TaxLines, s \in TaxShipping }

\* What the providers answer during one call, the same for every line.
UniformAnswers ==
    { [line_total |-> [i \in LineIds |-> m], line_rate |-> [i \in LineIds |-> rt],
       shipping |-> s, shipping_rate |-> rt, subtotal |-> st, total |-> tt,
       tax_data |-> td,
       flat_prices |-> [i \in LineIds |-> fm], flat_rates |-> [i \in LineIds |-> fr],
       flat_shipping |-> fs, flat_shipping_rate |-> fr,
       base_lines |-> [i \in LineIds |-> bm], base_units |-> [i \in LineIds |-> 2],
       base_shipping |-> bs] :
      m \in PluginMoney, rt \in PluginRates, s \in PluginShipping,
      st \in PluginSubtotal, tt \in PluginTotal, td \in UniformTaxData,
      fm \in FlatMoney, fr \in FlatRates, fs \in FlatShipping,
      bm \in BaseMoney, bs \in BaseShipping }

\* A call with force_update = False that finds the prices expired, up to the new
\* price_expiration.
fetch_compute(r) ==
    /\ pc[r] \in {"idle", "returned", "raised"}
    /\ ~prices_are_fresh(FALSE, db.checkout.price_expiration, now)
    /\ force_update' = [force_update EXCEPT ![r] = FALSE]
    /\ \E a \in UniformAnswers :
          info' = [info EXCEPT ![r] = recompute(db, tax_configuration, a, now)]
    /\ entry' = [entry EXCEPT ![r] = db]
    /\ entered_at' = [entered_at EXCEPT ![r] = now]
    /\ pc' = [pc EXCEPT ![r] = "save"]
    /\ log' = [log EXCEPT ![r] = <<"select_strategy", "set_expiration">>]
    /\ idx' = [idx EXCEPT ![r] = 0]
    /\ tax_data' = [tax_data EXCEPT ![r] = NoTaxData]
    /\ plugin_values' = [plugin_values EXCEPT ![r] = db]
    /\ base_prices' = [base_prices EXCEPT ![r] = NoBasePrices]
    /\ result' = [result EXCEPT ![r] = NoResult]
    /\ UNCHANGED <<now, tax_configuration, db, app>>

\* Another request (not a price calculation) changes the quantity of a line.
ChangedQuantity == 3
line_quantity_changed(i) ==
    /\ \E r \in Requests : pc[r] \in {"save", "bulk_update"}
    /\ db.lines[i].quantity # ChangedQuantity
    /\ db' = [db EXCEPT !.lines[i].quantity = ChangedQuantity]
    /\ UNCHANGED <<now, tax_configuration, pc, info, force_update, entry, entered_at,
                   log, idx, tax_data, plugin_values, base_prices, result, app>>

\* The requests arrive within one tick of the clock.
ConcNext ==
    \/ \E r \in Requests : fetch_return_fresh(r)
    \/ \E r \in Requests : fetch_compute(r)
    \/ \E r \in Requests : fetch_save(r)
    \/ \E r \in Requests : fetch_bulk_update(r)
    \/ \E i \in LineIds : line_quantity_changed(i)

SpecConc == Init /\ [][ConcNext]_vars

\* ------------------------------------------------------------ AppUpdate
\* ModelMutation.clean_input for AppInput: the keys of data, none of them an ID
\* or an upload, are copied as they are.
super_clean_input(data) == [present |-> TRUE, input |-> data]

requestor_is_superuser(requestor) == requestor.is_superuser

\* The permission objects of the names in the input.
get_permissions(permissions) ==
    [permissions EXCEPT !.value = permissions.value, !.resolved = TRUE]

out_of_scope_app_only_managers(is_superuser, can_manage) == ~is_superuser /\ can_manage

\* The condition under which the requestor is turned away.
out_of_scope_app(is_superuser, can_manage) == ~is_superuser /\ ~can_manage

\* The mutation calls clean_input with the requestor of the request and its data.
app_update_called ==
    /\ app.pc = "idle"
    /\ \E requestor \in Requestors, data \in AppInputs :
          app' = [NoAppUpdate EXCEPT !.pc = "clean_input",
                                     !.requestor = requestor,
                                     !.data = data]
    /\ UNCHANGED checkout_vars

app_super_clean_input ==
    /\ app.pc = "clean_input"
    /\ app' = [app EXCEPT !.pc = "check_scope",
                          !.cleaned_input = super_clean_input(app.data),
                          !.log = Append(@, "super.clean_input")]
    /\ UNCHANGED checkout_vars

\* can_manage_app is asked only of a requestor that is not a superuser.
app_check_scope ==
    /\ app.pc = "check_scope"
    /\ LET su == requestor_is_superuser(app.requestor)
       IN  \E answer \in (IF su THEN {FALSE} ELSE BOOLEAN) :
             LET asked == [asked |-> ~su, answer |-> answer]
                 calls == IF su THEN <<"requestor_is_superuser">>
                                ELSE <<"requestor_is_superuser", "can_manage_app">>
             IN  IF out_of_scope_app(su, answer)
                 THEN app' = [app EXCEPT !.pc = "raised",
                                         !.can_manage = asked,
                                         !.error = OUT_OF_SCOPE_APP,
                                         !.log = @ \o calls \o <<"raise">>]
                 ELSE app' = [app EXCEPT !.pc = "permissions",
                                         !.can_manage = asked,
                                         !.log = @ \o calls]
    /\ UNCHANGED checkout_vars

app_no_permissions ==
    /\ app.pc = "permissions"
    /\ ~app.cleaned_input.input.permissions.present
    /\ app' = [app EXCEPT !.pc = "return"]
    /\ UNCHANGED checkout_vars

\* The resolved permissions are stored before the requestor's right to grant
\* them is checked; the check may raise.
app_clean_permissions ==
    /\ app.pc = "permissions"
    /\ app.cleaned_input.input.permissions.present
    /\ LET permissions == app.cleaned_input.input.permissions
           stored == [app.cleaned_input EXCEPT
                          !.input.permissions = get_permissions(permissions)]
       IN  \E allowed \in BOOLEAN :
             IF allowed
             THEN app' = [app EXCEPT !.pc = "return",
                                     !.cleaned_input = stored,
                                     !.log = @ \o <<"get_permissions",
                                                    "ensure_can_manage_permissions">>]
             ELSE app' = [app EXCEPT !.pc = "raised",
                                     !.cleaned_input = stored,
                                     !.error = OUT_OF_SCOPE_PERMISSION,
                                     !.log = @ \o <<"get_permissions",
                                                    "ensure_can_manage_permissions",
                                                    "raise">>]
    /\ UNCHANGED checkout_vars

app_return ==
    /\ app.pc = "return"
    /\ app' = [app EXCEPT !.pc = "returned", !.returned = app.cleaned_input]
    /\ UNCHANGED checkout_vars

AppNext ==
    \/ app_update_called
    \/ app_super_clean_input
    \/ app_check_scope
    \/ app_no_permissions
    \/ app_clean_permissions
    \/ app_return

SpecApp == Init /\ [][AppNext]_vars

\* ------------------------------------------------------------ claims
Has(r, event) == \E i \in DOMAIN log[r] : log[r][i] = event
Count(r, event) == Cardinality({i \in DOMAIN log[r] : log[r][i] = event})
Precedes(r, a, b) == \E i, j \in DOMAIN log[r] : i < j /\ log[r][i] = a /\ log[r][j] = b
LastEvent(r) == IF log[r] = <<>> THEN "" ELSE log[r][Len(log[r])]

\* The call of r has started (r is in it, or it has ended and no other followed).
InCall(r) == pc[r] # "idle"
\* The call of r found the prices of the checkout it was given still fresh.
GivenFresh(r) == entry[r].checkout.price_expiration > entered_at[r]
\* Every step after the prices are computed (and the tax removed where it is).
Computed == {"set_expiration", "save", "bulk_update", "returned"}
\* The state in which _calculate_and_add_tax has just returned from the TAX_APP branch.
TaxAppDone(r) ==
    pc[r] \in {"remove_tax", "set_expiration"} /\ LastEvent(r) = "get_taxes_for_checkout"

NoTaxCharged(r) ==
    ~(tax_configuration.charge_taxes /\ ~entry[r].checkout.tax_exemption)

GrossIsNet(c) ==
    /\ c.checkout.total.gross = c.checkout.total.net
    /\ c.checkout.subtotal.gross = c.checkout.subtotal.net
    /\ c.checkout.shipping_price.gross = c.checkout.shipping_price.net
    /\ \A i \in DOMAIN c.lines : c.lines[i].total_price.gross = c.lines[i].total_price.net

NoTaxRate(c) ==
    /\ c.checkout.shipping_tax_rate = 0
    /\ \A i \in DOMAIN c.lines : c.lines[i].tax_rate = 0

\* C1. A call with force_update = false on a checkout whose price_expiration is
\* later than now returns the checkout and lines it was given, unchanged; it calls
\* neither the tax provider, the flat rates nor the base prices, and writes nothing.
C1_FreshnessShortCircuit ==
    \A r \in Requests :
        (InCall(r) /\ ~force_update[r] /\ GivenFresh(r)) =>
            /\ pc[r] = "returned"
            /\ log[r] = <<>>
            /\ info[r] = entry[r]
            /\ db = entry[r]

C1_Witness ==
    /\ pc[1] = "returned" /\ ~force_update[1] /\ GivenFresh(1)
    /\ entry[1].checkout.total # zero_taxed_money
    /\ log[1] = <<>>

\* C2. A call with force_update = true never returns early, whatever
\* price_expiration is: it resolves the strategy, and when it returns it has run a
\* tax-application branch and saved the checkout and the lines, once each.
C2_ForcedRecompute ==
    \A r \in Requests :
        (InCall(r) /\ force_update[r]) =>
            /\ log[r] # <<>> /\ log[r][1] = "select_strategy"
            /\ pc[r] = "returned" =>
                  /\ Has(r, "calculate_and_add_tax") \/ Has(r, "get_checkout_base_prices")
                  /\ Count(r, "save") = 1
                  /\ Count(r, "bulk_update") = 1

C2_Witness ==
    /\ pc[1] = "returned" /\ force_update[1] /\ GivenFresh(1)
    /\ Count(1, "save") = 1 /\ Count(1, "bulk_update") = 1

\* C3. A recomputation that runs to its end sets price_expiration to
\* now + CHECKOUT_PRICES_TTL after the tax application, then saves the checkout
\* and then the lines, also when the values computed are the ones stored before.
C3_RecomputePersists ==
    \A r \in Requests :
        (pc[r] = "returned" /\ log[r] # <<>>) =>
            /\ info[r].checkout.price_expiration = entered_at[r] + CHECKOUT_PRICES_TTL
            /\ Len(log[r]) >= 4
            /\ SubSeq(log[r], Len(log[r]) - 2, Len(log[r]))
                  = <<"set_expiration", "save", "bulk_update">>
            /\ log[r][Len(log[r]) - 3] \in
                  ManagerCalls \cup {"calculate_and_add_tax", "remove_tax",
                                     "update_checkout_prices_with_flat_rates",
                                     "get_checkout_base_prices"}
            /\ db.checkout = info[r].checkout
            /\ db.lines = info[r].lines

C3_Witness ==
    /\ pc[1] = "returned" /\ log[1] # <<>>
    /\ info[1] = entry[1]
    /\ info[1].checkout.total # zero_taxed_money
    /\ Count(1, "save") = 1 /\ Count(1, "bulk_update") = 1

\* C4. With prices entered with tax and no tax to charge, whatever the strategy,
\* the tax computation is invoked first and the tax then removed: afterwards every
\* gross amount (total, subtotal, shipping, every line) equals its net amount and
\* every tax rate is zero, in memory and, once the call has returned, in storage.
C4_TaxRemoval ==
    \A r \in Requests :
        (pc[r] \in Computed /\ log[r] # <<>>
           /\ tax_configuration.prices_entered_with_tax /\ NoTaxCharged(r)) =>
            /\ Precedes(r, "calculate_and_add_tax", "remove_tax")
            /\ GrossIsNet(info[r]) /\ NoTaxRate(info[r])
            /\ pc[r] = "returned" => GrossIsNet(db) /\ NoTaxRate(db)

C4_Witness ==
    /\ pc[1] = "returned" /\ log[1] # <<>>
    /\ tax_configuration.prices_entered_with_tax /\ NoTaxCharged(1)
    /\ Has(1, "get_taxes_for_checkout")
    /\ \A i \in LineIds : info[1].lines[i].total_price.net # 0
    /\ info[1].checkout.total.net # 0

\* C5. With prices entered without tax and no tax to charge, a recomputation takes
\* the base-price branch only: no call of the tax provider and none of the flat
\* rates, for any strategy; afterwards every gross equals its net and every tax
\* rate is zero.
C5_TaxFreePath ==
    \A r \in Requests :
        (InCall(r) /\ log[r] # <<>>
           /\ ~tax_configuration.prices_entered_with_tax /\ NoTaxCharged(r)) =>
            /\ \A i \in DOMAIN log[r] :
                  log[r][i] \notin ManagerCalls \cup
                     {"calculate_and_add_tax", "update_checkout_prices_with_flat_rates"}
            /\ pc[r] \in Computed =>
                  /\ Count(r, "get_checkout_base_prices") = 1
                  /\ GrossIsNet(info[r]) /\ NoTaxRate(info[r])

C5_Witness ==
    /\ pc[1] = "returned" /\ log[1] # <<>>
    /\ ~tax_configuration.prices_entered_with_tax
    /\ tax_configuration.charge_taxes /\ entry[1].checkout.tax_exemption
    /\ tax_configuration.tax_calculation_strategy = TAX_APP
    /\ \A i \in LineIds : info[1].lines[i].total_price.net # 0

SumOf(c) ==
    quantize_price(TM(c.checkout.subtotal.net + c.checkout.shipping_price.net,
                      c.checkout.subtotal.gross + c.checkout.shipping_price.gross))

IsQuantized(x) == x % MinorUnit = 0

\* C6, as stated. After a recomputation through the base-price branch, for any
\* lines, shipping price and checkout discount,
\* checkout.total = quantize(checkout.subtotal + checkout.shipping_price).
C6_TotalIdentityTaxFree ==
    \A r \in Requests :
        (pc[r] \in Computed /\ Has(r, "get_checkout_base_prices")) =>
            info[r].checkout.total = SumOf(info[r])

\* C6, amended. After the base-price branch checkout.total is the quantized total
\* of the base price provider (base_checkout_total, which has the checkout
\* discount taken off), net = gross; it is quantize(subtotal + shipping_price)
\* when the checkout discount is zero and the provider's line and shipping prices
\* are whole minor units.
C6_TotalIsBaseTotal ==
    \A r \in Requests :
        (pc[r] = "set_expiration" /\ base_prices[r].present) =>
            LET bp == base_prices[r] IN
            /\ info[r].checkout.total =
                  TM(quantize_amount(bp.total), quantize_amount(bp.total))
            /\ (/\ info[r].checkout.discount_amount = 0
                /\ IsQuantized(bp.shipping)
                /\ \A i \in DOMAIN bp.lines : IsQuantized(bp.lines[i]))
               => info[r].checkout.total = SumOf(info[r])

C6_Witness ==
    /\ pc[1] = "set_expiration" /\ base_prices[1].present
    /\ info[1].checkout.discount_amount = 0
    /\ IsQuantized(base_prices[1].shipping)
    /\ \A i \in LineIds : IsQuantized(base_prices[1].lines[i])
    /\ info[1].checkout.shipping_price.net # 0
    /\ info[1].checkout.subtotal.net # 0

\* C7, as stated. When a recomputation needs a tax computation and the strategy
\* resolved is neither TAX_APP nor FLAT_RATES, the call ends in an error: it does
\* not go on to reset price_expiration and save.
C7_UnrecognizedStrategyFails ==
    \A r \in Requests :
        (Has(r, "calculate_and_add_tax")
           /\ tax_configuration.tax_calculation_strategy \notin {TAX_APP, FLAT_RATES}) =>
            /\ pc[r] # "returned"
            /\ ~Has(r, "set_expiration") /\ ~Has(r, "save") /\ ~Has(r, "bulk_update")

\* C8. When a call of the tax provider raises, the error leaves the function:
\* nothing is called after it (no retry), price_expiration is not reset, neither
\* the checkout nor the lines are saved, and storage is as it was before the call.
C8_ProviderFailure ==
    \A r \in Requests :
        pc[r] = "raised" =>
            /\ Len(log[r]) >= 2
            /\ LastEvent(r) = "raise" /\ Count(r, "raise") = 1
            /\ log[r][Len(log[r]) - 1] \in ManagerCalls
            /\ \A e \in ManagerCalls : Count(r, e) <= Len(info[r].lines)
            /\ Count(r, "get_taxes_for_checkout") <= 1
            /\ ~Has(r, "set_expiration") /\ ~Has(r, "save") /\ ~Has(r, "bulk_update")
            /\ db = entry[r]

C8_Witness ==
    /\ pc[1] = "raised"
    /\ log[1][Len(log[1]) - 1] = "get_taxes_for_checkout"
    /\ db.checkout.total # zero_taxed_money
    /\ info[1].checkout.total # db.checkout.total
    /\ db = entry[1]

\* C9. Under TAX_APP, when get_taxes_for_checkout returns no TaxData,
\* _apply_tax_data changes nothing: every line's total_price and tax_rate and the
\* checkout's shipping price, shipping tax rate, subtotal and total are the ones the
\* plugin calls returned, and no error is raised.
C9_AbsentTaxData ==
    \A r \in Requests :
        (TaxAppDone(r) /\ ~tax_data[r].present) =>
            /\ info[r] = plugin_values[r]
            /\ \A i \in DOMAIN info[r].lines :
                  /\ info[r].lines[i].total_price \in PluginMoney
                  /\ info[r].lines[i].tax_rate \in PluginRates
            /\ info[r].checkout.shipping_price \in PluginShipping
            /\ info[r].checkout.shipping_tax_rate \in PluginRates
            /\ info[r].checkout.subtotal \in PluginSubtotal
            /\ info[r].checkout.total \in PluginTotal

C9_Witness ==
    /\ TaxAppDone(1) /\ ~tax_data[1].present
    /\ info[1].lines[1].total_price # info[1].lines[NumLines].total_price
    /\ info[1].checkout.subtotal # calculate_checkout_subtotal(info[1].lines)

\* C10. Under TAX_APP, given a TaxData with as many lines as the checkout, after
\* the tax computation line i has the quantized total_net_amount and
\* total_gross_amount of TaxData.lines[i] and the tax rate of TaxData.lines[i]
\* (normalized), for every i, whatever the plugin calls had set.
C10_PositionalTaxData ==
    \A r \in Requests :
        (TaxAppDone(r) /\ tax_data[r].present
           /\ Len(tax_data[r].lines) = Len(info[r].lines)) =>
            \A i \in DOMAIN info[r].lines :
                /\ info[r].lines[i].total_price.net
                      = quantize_amount(tax_data[r].lines[i].total_net_amount)
                /\ info[r].lines[i].total_price.gross
                      = quantize_amount(tax_data[r].lines[i].total_gross_amount)
                /\ info[r].lines[i].tax_rate
                      = normalize_tax_rate_for_db(tax_data[r].lines[i].tax_rate)

C10_Witness ==
    /\ TaxAppDone(1) /\ tax_data[1].present
    /\ Len(tax_data[1].lines) = NumLines
    /\ tax_data[1].lines[1] # tax_data[1].lines[NumLines]
    /\ \A i \in LineIds : plugin_values[1].lines[i].total_price # info[1].lines[i].total_price
    /\ \E i \in LineIds : ~IsQuantized(tax_data[1].lines[i].total_net_amount)

\* C11. Under TAX_APP with a TaxData present, after the tax computation the
\* subtotal and total the plugin calls supplied are gone: shipping_price is the
\* (quantized) shipping price of TaxData, subtotal is the quantized sum of the
\* total_price of all lines, and total is quantize(subtotal + shipping_price).
C11_LocalSubtotalAndTotal ==
    \A r \in Requests :
        (TaxAppDone(r) /\ tax_data[r].present) =>
            LET c == info[r]
                sum == SumTM([i \in DOMAIN c.lines |-> c.lines[i].total_price],
                             zero_taxed_money)
            IN  /\ c.checkout.shipping_price
                      = TM(quantize_amount(tax_data[r].shipping_price_net_amount),
                           quantize_amount(tax_data[r].shipping_price_gross_amount))
                /\ c.checkout.subtotal
                      = TM(quantize_amount(sum.net), quantize_amount(sum.gross))
                /\ c.checkout.total = SumOf(c)

C11_Witness ==
    /\ TaxAppDone(1) /\ tax_data[1].present
    /\ plugin_values[1].checkout.subtotal \in PluginSubtotal
    /\ plugin_values[1].checkout.total \in PluginTotal
    /\ info[1].checkout.subtotal # plugin_values[1].checkout.subtotal
    /\ info[1].checkout.total # plugin_values[1].checkout.total
    /\ info[1].checkout.shipping_price # plugin_values[1].checkout.shipping_price
    /\ ~IsQuantized(SumTM([i \in LineIds |-> info[1].lines[i].total_price],
                          zero_taxed_money).gross)

\* C12, as stated. For every checkout total (net and gross may differ) and every
\* gift card balance >= 0, calculate_checkout_total_with_gift_cards returns a
\* TaxedMoney with neither net nor gross negative: the total minus the balance
\* when that is not negative, zero money otherwise.
C12_GiftCardFloor ==
    \A r \in Requests :
        result[r].op = "calculate_checkout_total_with_gift_cards" =>
            LET total == quantize_price(info[r].checkout.total)
                less == TM(total.net - result[r].balance, total.gross - result[r].balance)
            IN  /\ result[r].money.net >= 0
                /\ result[r].money.gross >= 0
                /\ result[r].money =
                      IF less.net >= 0 /\ less.gross >= 0 THEN less ELSE zero_taxed_money

\* The price fields of a checkout and its lines.
PriceFields(c) ==
    [total |-> c.checkout.total, subtotal |-> c.checkout.subtotal,
     shipping_price |-> c.checkout.shipping_price,
     shipping_tax_rate |-> c.checkout.shipping_tax_rate,
     lines |-> [i \in DOMAIN c.lines |->
                  [total_price |-> c.lines[i].total_price, tax_rate |-> c.lines[i].tax_rate]]]

\* Request r found the prices expired, recomputed and has saved checkout and lines.
Persisted(r) == pc[r] = "returned" /\ LastEvent(r) = "bulk_update"

\* Both requests found the same expired prices: the second entered before the
\* first had saved.
BothSawExpired ==
    /\ Persisted(1) /\ Persisted(2)
    /\ PriceFields(entry[1]) = PriceFields(entry[2])
    /\ entry[1].checkout.price_expiration = entry[2].checkout.price_expiration

\* C13. Two requests find the same checkout expired, both recompute and both
\* save, with no lock. When the providers give both the same prices (they are
\* deterministic), then however the steps interleave the price fields stored in the
\* end are those of a single recomputation, and so is price_expiration.
C13_ConcurrentDeterministic ==
    (BothSawExpired /\ PriceFields(info[1]) = PriceFields(info[2])) =>
        /\ PriceFields(db) = PriceFields(info[1])
        /\ db.checkout.price_expiration = info[1].checkout.price_expiration
        /\ db.checkout.discount_amount = info[1].checkout.discount_amount

C13_Witness ==
    /\ BothSawExpired /\ PriceFields(info[1]) = PriceFields(info[2])
    /\ db.checkout.total # zero_taxed_money
    /\ \A i \in LineIds : db.lines[i].total_price # zero_taxed_money
    /\ PriceFields(db) # PriceFields(entry[1])

\* What the read operation res.op returns when the checkout and lines are c: the
\* field it is named after, money rounded to the currency precision (the unit
\* price is the line total divided by the quantity).
ReadsField(c, res) ==
    LET line == c.lines[IF res.line \in DOMAIN c.lines THEN res.line ELSE 1]
        rounded(m) == TM(quantize_amount(m.net), quantize_amount(m.gross))
    IN  CASE res.op = "checkout_shipping_price" ->
                res.money = rounded(c.checkout.shipping_price)
          [] res.op = "checkout_shipping_tax_rate" ->
                res.rate = c.checkout.shipping_tax_rate
          [] res.op = "checkout_subtotal" -> res.money = rounded(c.checkout.subtotal)
          [] res.op = "checkout_total" -> res.money = rounded(c.checkout.total)
          [] res.op = "checkout_line_total" -> res.money = rounded(line.total_price)
          [] res.op = "checkout_line_unit_price" ->
                res.money = TM(quantize_quotient(line.total_price.net, line.quantity),
                               quantize_quotient(line.total_price.gross, line.quantity))
          [] res.op = "checkout_line_tax_rate" -> res.rate = line.tax_rate
          [] OTHER -> FALSE

\* C14. Each of the seven read operations makes the prices fresh before it reads.
\* Called on an expired checkout it runs a whole recomputation (strategy, prices,
\* price_expiration, save, bulk_update) and returns the recomputed field, which is
\* also the stored one; called on a fresh checkout it returns the cached field,
\* calls no provider and writes nothing.
C14_ReadsEnsureFreshness ==
    \A r \in Requests :
        result[r].op \in CheckoutOps \cup LineOps =>
            /\ ReadsField(info[r], result[r])
            /\ IF GivenFresh(r)
               THEN /\ log[r] = <<>>
                    /\ info[r] = entry[r]
                    /\ db = entry[r]
                    /\ ReadsField(entry[r], result[r])
               ELSE /\ log[r] # <<>> /\ log[r][1] = "select_strategy"
                    /\ Count(r, "set_expiration") = 1
                    /\ Count(r, "save") = 1
                    /\ Count(r, "bulk_update") = 1
                    /\ LastEvent(r) = "bulk_update"
                    /\ info[r].checkout.price_expiration > entered_at[r]
                    /\ ReadsField(db, result[r])

C14_Witness ==
    /\ result[1].op = "checkout_total"
    /\ ~GivenFresh(1)
    /\ entry[1].checkout.total # zero_taxed_money
    /\ result[1].money # quantize_price(entry[1].checkout.total)
    /\ Has(1, "get_taxes_for_checkout")

\* Every monetary field of the checkout and of its lines is a whole number of
\* minor units, net and gross.
AllQuantized(c) ==
    /\ \A m \in {c.checkout.shipping_price, c.checkout.subtotal, c.checkout.total} :
          IsQuantized(m.net) /\ IsQuantized(m.gross)
    /\ \A i \in DOMAIN c.lines :
          IsQuantized(c.lines[i].total_price.net) /\ IsQuantized(c.lines[i].total_price.gross)

\* C15, as stated. After a recomputation through the tax plugin (with or without
\* TaxData), the tax-free branch or the removal of tax, every monetary field
\* written to the checkout (shipping_price, subtotal, total) and to the lines
\* (total_price) is quantized to the currency precision, net and gross, also the
\* values the per-call plugin functions handed back.
C15_QuantizedBeforeStore ==
    \A r \in Requests :
        (pc[r] \in {"save", "bulk_update", "returned"} /\ log[r] # <<>>
           /\ (Has(r, "get_taxes_for_checkout") \/ Has(r, "get_checkout_base_prices"))) =>
            /\ AllQuantized(info[r])
            /\ pc[r] = "returned" => AllQuantized(db)

\* C16. A recomputation writes the listed columns only: checkout.save the price,
\* discount and expiration columns of the checkout, bulk_update the total price
\* and tax rate of each line. Every other stored field of the checkout (here
\* tax_exemption) and of the lines (here quantity) and the number and order of
\* the lines are as they were just before the write, also when another request
\* changed them after this one had read the checkout.
C16_PartialFieldPersistence ==
    [][ \A r \in Requests :
          (pc[r] \in {"save", "bulk_update"} /\ pc'[r] # pc[r]) =>
              /\ db'.checkout.tax_exemption = db.checkout.tax_exemption
              /\ DOMAIN db'.lines = DOMAIN db.lines
              /\ \A i \in DOMAIN db.lines : db'.lines[i].quantity = db.lines[i].quantity
              /\ pc[r] = "save" => db'.lines = db.lines
              /\ pc[r] = "bulk_update" => db'.checkout = db.checkout ]_vars

C16_Witness ==
    /\ Persisted(1)
    /\ \E i \in LineIds :
          /\ info[1].lines[i].quantity # db.lines[i].quantity
          /\ db.lines[i].total_price = info[1].lines[i].total_price
          /\ db.lines[i].total_price # entry[1].lines[i].total_price

\* The tax computation of the call of r has returned.
TaxComputed(r) ==
    /\ Has(r, "calculate_and_add_tax")
    /\ pc[r] \in {"remove_tax", "set_expiration", "save", "bulk_update", "returned"}

\* C17. A tax computation with strategy FLAT_RATES invokes
\* update_checkout_prices_with_flat_rates once, with the prices_entered_with_tax
\* of the call, and neither a per-call function of the tax provider nor
\* get_taxes_for_checkout; with strategy TAX_APP the flat rates are never invoked.
C17_FlatRatesNoProviderCall ==
    \A r \in Requests :
        /\ tax_configuration.tax_calculation_strategy = FLAT_RATES =>
              /\ \A i \in DOMAIN log[r] : log[r][i] \notin ManagerCalls
              /\ Count(r, "update_checkout_prices_with_flat_rates") <= 1
              /\ TaxComputed(r) =>
                    /\ Count(r, "update_checkout_prices_with_flat_rates") = 1
                    /\ Precedes(r, "calculate_and_add_tax",
                                "update_checkout_prices_with_flat_rates")
                    /\ \E i \in DOMAIN log[r] :
                          /\ i > 1
                          /\ log[r][i] = "update_checkout_prices_with_flat_rates"
                          /\ log[r][i - 1] =
                                IF tax_configuration.prices_entered_with_tax
                                THEN "prices_entered_with_tax=True"
                                ELSE "prices_entered_with_tax=False"
        /\ tax_configuration.tax_calculation_strategy = TAX_APP =>
              ~Has(r, "update_checkout_prices_with_flat_rates")

C17_Witness ==
    /\ tax_configuration.tax_calculation_strategy = FLAT_RATES
    /\ tax_configuration.prices_entered_with_tax
    /\ pc[1] = "returned"
    /\ Count(1, "update_checkout_prices_with_flat_rates") = 1
    /\ Has(1, "remove_tax")
    /\ info[1].checkout.total # zero_taxed_money

\* C18, as stated. Whenever no request stands between its checkout.save and its
\* bulk_update, the stored header (subtotal, total, shipping price) and the stored
\* line prices come from one and the same recomputation, also after two
\* interleaved recomputations whose provider results differ: never the header of
\* one request with the lines of the other.
C18_AtomicSnapshot ==
    ((\A r \in Requests : pc[r] # "bulk_update") /\ (\E r \in Requests : Persisted(r))) =>
        \E r \in Requests : Persisted(r) /\ PriceFields(db) = PriceFields(info[r])

\* A call of r with force_update = False starts in this step.
UnforcedCallStarts(r) ==
    /\ pc[r] \in {"idle", "returned", "raised"}
    /\ log'[r] # log[r] \/ entered_at'[r] # entered_at[r] \/ pc'[r] # pc[r]
           \/ result'[r] # result[r] \/ entry'[r] # entry[r]
    /\ result'[r] = NoResult
    /\ ~force_update'[r]

\* C19. A recomputation that completes, on whichever path, leaves the stored
\* price_expiration at its time + CHECKOUT_PRICES_TTL, so the prices are fresh
\* until the TTL has elapsed: a call with force_update = False made before then
\* returns at once and writes nothing, and a call with force_update = False that
\* does recompute starts only when the window of the last recomputation is over.
C19_RecomputationRestoresFreshness ==
    /\ [](\A r \in Requests :
            Persisted(r) =>
               /\ db.checkout.price_expiration = entered_at[r] + CHECKOUT_PRICES_TTL
               /\ now < entered_at[r] + CHECKOUT_PRICES_TTL
                     => prices_are_fresh(FALSE, db.checkout.price_expiration, now))
    /\ [][ \A r \in Requests :
             UnforcedCallStarts(r) =>
                IF now < db.checkout.price_expiration
                THEN pc'[r] = "returned" /\ log'[r] = <<>> /\ db' = db /\ info'[r] = db
                ELSE log'[r] = <<"select_strategy">> ]_vars

C19_Witness ==
    /\ now > 0
    /\ pc[1] = "returned" /\ log[1] = <<>> /\ ~force_update[1]
    /\ db.checkout.price_expiration = now + CHECKOUT_PRICES_TTL
    /\ entry[1] = db
    /\ db.checkout.total # zero_taxed_money
    /\ tax_configuration.tax_calculation_strategy = FLAT_RATES

\* C20. A TaxData whose number of lines differs from the checkout's is applied
\* and nothing is raised: the first min(N, M) checkout lines take the TaxData
\* values, every later line keeps what the per-call plugin functions had set, the
\* TaxData entries beyond the checkout's lines are ignored, and subtotal is the
\* quantized sum over all checkout lines.
C20_TaxDataLineCountMismatch ==
    \A r \in Requests :
        (TaxAppDone(r) /\ tax_data[r].present
           /\ Len(tax_data[r].lines) # Len(plugin_values[r].lines)) =>
            LET n == Len(plugin_values[r].lines)
                m == Len(tax_data[r].lines)
                sum == SumTM([i \in 1..n |-> info[r].lines[i].total_price],
                             zero_taxed_money)
            IN  /\ ~Has(r, "raise")
                /\ DOMAIN info[r].lines = 1..n
                /\ \A i \in 1..n :
                      IF i <= m
                      THEN /\ info[r].lines[i].total_price =
                                 TM(quantize_amount(tax_data[r].lines[i].total_net_amount),
                                    quantize_amount(tax_data[r].lines[i].total_gross_amount))
                           /\ info[r].lines[i].tax_rate =
                                 normalize_tax_rate_for_db(tax_data[r].lines[i].tax_rate)
                      ELSE info[r].lines[i] = plugin_values[r].lines[i]
                /\ info[r].checkout.subtotal =
                      TM(quantize_amount(sum.net), quantize_amount(sum.gross))
                /\ info[r].checkout.shipping_price.gross =
                      quantize_amount(tax_data[r].shipping_price_gross_amount)

C20_Witness ==
    /\ TaxAppDone(1) /\ tax_data[1].present
    /\ Len(tax_data[1].lines) < NumLines
    /\ Len(tax_data[1].lines) > 0
    /\ info[1].lines[1].total_price # plugin_values[1].lines[1].total_price
    /\ info[1].lines[NumLines].total_price \in PluginMoney
    /\ info[1].checkout.subtotal # plugin_values[1].checkout.subtotal

\* The call of AppUpdate.clean_input is past its check of the requestor's scope.
AppScopeChecked == app.pc \in {"permissions", "return", "returned", "raised"}
AppCalled(event) == \E i \in DOMAIN app.log : app.log[i] = event

\* C21: a requestor that is not a superuser and cannot manage the app is turned
\* away by clean_input: the call raises a ValidationError on the field id with
\* the code OUT_OF_SCOPE_APP, returns no cleaned input, and neither resolves
\* nor checks the permissions of the input; a superuser is never turned away
\* by this check, and can_manage_app is not even asked for one.
C21_OutOfScopeRequestorRejected ==
    /\ (AppScopeChecked /\ ~requestor_is_superuser(app.requestor)
          /\ app.can_manage.asked /\ ~app.can_manage.answer) =>
            /\ app.pc = "raised"
            /\ app.error = OUT_OF_SCOPE_APP
            /\ ~app.returned.present
            /\ ~AppCalled("get_permissions")
            /\ ~AppCalled("ensure_can_manage_permissions")
            /\ ~app.cleaned_input.input.permissions.resolved
    /\ (app.pc # "idle" /\ requestor_is_superuser(app.requestor)) =>
            /\ app.error # OUT_OF_SCOPE_APP
            /\ ~AppCalled("can_manage_app")
            /\ AppScopeChecked => (app.pc = "raised" => app.error = OUT_OF_SCOPE_PERMISSION)
    /\ (AppScopeChecked /\ ~requestor_is_superuser(app.requestor)) => app.can_manage.asked

C21_Witness ==
    /\ app.pc = "raised"
    /\ ~requestor_is_superuser(app.requestor)
    /\ app.can_manage.asked /\ ~app.can_manage.answer
    /\ app.data.permissions.present /\ app.data.permissions.value # {}
    /\ app.error = OUT_OF_SCOPE_APP

====
